---- MODULE Spec2Model ----
(***************************************************************************)
(* data_dump.py: bulk export of one vault table through a paginated HTTP   *)
(* API, followed by an optional token pass over the exported identifiers.  *)
(*                                                                         *)
(* The main thread runs the script top to bottom (pc); each wave of the    *)
(* two scheduler loops runs its chunk workers (futures) concurrently with  *)
(* the main thread and with each other.  The vault, the HTTP outcomes and  *)
(* the command line are the environment.                                   *)
(***************************************************************************)
EXTENDS Integers, Sequences, FiniteSets

\* ------------------------------------------------------------ bounds
MaxRecords == 3      \* table sizes 0..MaxRecords
MaxRowsPerCall == 2  \* --rows_per_call in 1..MaxRowsPerCall
MaxParallel == 2     \* --mt in 1..MaxParallel (the command line allows 1..7)
MaxPageSize == 2     \* page sizes the vault may use for a request without limit
MaxFaults == 3       \* attempts of a run that do not answer 200 with a JSON body
MaxKeys == 3         \* fields of the first record, where the schema is derived
MaxTime == 3         \* clock readings 0..MaxTime, and the expiry times of --bt
MaxCalls == 3        \* calls of token_provider in one run
Lifetime == 2        \* clock ticks a generated bearer token is valid for
MaxWaves == 4        \* waves of one loop the model follows (above MaxRecords)

\* ------------------------------------------------------------ constants
retries == 3         \* make_api_call: retries = 3

NoColumn == "<none>"     \* --unique_id_column not given
NoLimit == 0             \* a list request that carries no limit parameter
Empty == 0               \* the empty cell ''

\* Field names a table may have.
KeyNames == {"skyflow_id", "name", "email", "ssn"}

\* ------------------------------------------------------------ helpers
Min(a, b) == IF a < b THEN a ELSE b

RECURSIVE Pow2(_)
Pow2(n) == IF n = 0 THEN 1 ELSE 2 * Pow2(n - 1)

Range(s) == {s[i] : i \in 1..Len(s)}

Take(s, n) == SubSeq(s, 1, Min(n, Len(s)))
Drop(s, n) == SubSeq(s, Min(n, Len(s)) + 1, Len(s))

VARIABLES
  args,                 \* the parsed command line
  auth,                 \* bearerToken, the header's accessToken and the clock
  vault,                \* the remote table: row count and default page size
  pc,                   \* position of the main thread
  apiCall,              \* the make_api_call the main thread is inside
  total_records,
  fieldnames,
  offset,
  total_records_dumped,
  total_tokens_dumped,
  futures,              \* the workers of the current wave
  temp_output,          \* the scan Buffer (temp_output_path)
  temp_output_token,    \* the token Buffer (temp_output_token_path)
  output_csv,           \* the file at OUTPUT_CSV
  output_token_csv,     \* the file at OUTPUT_TOKEN_CSV
  error_log,            \* the file at ERROR_LOG_FILE
  stdout,               \* what the run printed
  skyflow_ids,
  additional_fields,
  submitted,            \* history: chunks handed to executor.submit, per phase
  waves,                \* history: ThreadPoolExecutor blocks entered, per phase
  faults                \* history: attempts that did not answer 200 with JSON

vars == <<args, auth, vault, pc, apiCall, total_records, fieldnames, offset,
          total_records_dumped, total_tokens_dumped, futures, temp_output,
          temp_output_token, output_csv, output_token_csv, error_log, stdout,
          skyflow_ids, additional_fields, submitted, waves, faults>>

MAX_PARALLEL_TASKS == args.mt
ROWS_PER_CHUNK == args.rows_per_call
UNIQUE_ID_COLUMN == args.unique_id_column
DUMP_TOKENS_ENABLED == args.dump_tokens
OUTPUT_TOKEN_CSV == args.output_token_data

\* ------------------------------------------------------------ the vault
\* Keys of the first record of the table, in the server's order.
RecordKeys == vault.keys

\* Row i of the table (1-based position in the server's ascending order): the
\* fields of the first record.  Row vault.odd, if any, carries one more field.
TableRow(i) ==
  [k \in Range(RecordKeys) \cup (IF i = vault.odd /\ i > 1 THEN {"extra"} ELSE {}) |->
     IF k = "skyflow_id" THEN i ELSE IF k = "extra" THEN 200 + i ELSE 100 + i]

\* GET .../{table}?offset=o[&limit=l]: the page starting at offset o; a request
\* without limit gets the vault's own page size.
ListRecords(req) ==
  LET lim == IF req.limit = NoLimit THEN vault.limit ELSE req.limit
      last == Min(req.offset + lim, vault.count)
  IN  [i \in 1..(IF last > req.offset THEN last - req.offset ELSE 0)
         |-> TableRow(req.offset + i)]

\* GET .../{table}?tokenization=true&skyflow_ids=...: one record per requested
\* identifier, only the identifier populated.
GetTokens(ids) ==
  [i \in 1..Len(ids) |->
     [k \in Range(RecordKeys) \cup {"skyflow_id"} |->
        IF k = "skyflow_id" THEN ids[i] ELSE Empty]]

\* ------------------------------------------------------------ log_error, print
LogEntry(src, ref) == [src |-> src, ref |-> ref]

log_error(log, src, ref) == Append(log, LogEntry(src, ref))

\* A printed line: its text and the names of the values interpolated into it.
Line(text, shows, val) == [text |-> text, shows |-> shows, val |-> val]

\* ------------------------------------------------------------ token_provider
\* A token value: None, the empty string, or a JWT with its expiry time.
None == [kind |-> "None", exp |-> 0]
EmptyString == [kind |-> "empty", exp |-> 0]
Jwt(exp) == [kind |-> "jwt", exp |-> exp]

\* `not bearerToken`
Falsy(token) == token.kind \in {"None", "empty"}

\* skyflow.service_account.is_expired: true for an empty token and for a JWT
\* whose exp is not later than the clock.
is_expired(token, now) == token.kind = "empty" \/ token.exp <= now

\* skyflow.service_account.generate_bearer_token: a fresh JWT.
generate_bearer_token(now) == Jwt(now + Lifetime)

\* Lines 51-57: the global bearerToken after the call; it is what is returned.
token_provider(a) ==
  IF Falsy(a.bearerToken) /\ (a.bearerToken = None \/ is_expired(a.bearerToken, a.now))
  THEN [a EXCEPT !.bearerToken = generate_bearer_token(a.now)]
  ELSE a

\* The state of line 48 for a command line with --bt, --pc or both.
NewAuth(bt) ==
  [BEARER_TOKEN |-> bt, bearerToken |-> bt, accessToken |-> None,
   returned |-> None, calls |-> 0, now |-> 0]

\* A call of token_provider and what it returns.
Call(a) ==
  [token_provider(a) EXCEPT !.returned = token_provider(a).bearerToken,
                            !.calls = @ + 1]

\* Lines 128-131: the token the Authorization header is built from.
WithHeaders(a) ==
  IF Falsy(a.BEARER_TOKEN)
  THEN [Call(a) EXCEPT !.accessToken = Call(a).returned]
  ELSE [a EXCEPT !.accessToken = a.BEARER_TOKEN]

\* ------------------------------------------------------------ make_api_call
\* What one requests.get / requests.post plus raise_for_status can do.
\*   "exception": a RequestException (transport error, or 4xx/5xx)
\*   "200":       a response with status 200
\*   "2xx":       a response with another status below 400 (e.g. 204)
\*   "garbage":   a response with status 200 whose body is not JSON
Outcomes == {"exception", "200", "2xx", "garbage"}

NewCall == [status |-> "running", attempt |-> 0, failures |-> 0, slept |-> <<>>]

\* time.sleep(2 ** attempt)
Backoff(attempt) == Pow2(attempt)

\* A retry loop that runs one iteration too many.
make_api_call_one_more(call, outcome) ==
  IF outcome = "exception"
  THEN IF call.attempt < retries
       THEN [call EXCEPT !.attempt = @ + 1, !.failures = @ + 1,
                         !.slept = Append(@, Backoff(call.attempt))]
       ELSE [call EXCEPT !.status = "None", !.failures = @ + 1]
  ELSE [call EXCEPT !.status = outcome]

\* One iteration of the retry loop, the loop variable being call.attempt.
make_api_call(call, outcome) ==
  IF outcome = "exception"
  THEN IF call.attempt < retries - 1
       THEN [call EXCEPT !.attempt = @ + 1, !.failures = @ + 1,
                         !.slept = Append(@, Backoff(call.attempt))]
       ELSE [call EXCEPT !.status = "None", !.failures = @ + 1]
  ELSE [call EXCEPT !.status = outcome]

Returned(call) == call.status # "running"

\* The network: what the next attempt meets.  A run meets at most MaxFaults
\* attempts that do not answer 200 with a JSON body.
Meets(outcome) ==
  /\ outcome \in Outcomes
  /\ IF outcome = "200"
     THEN UNCHANGED faults
     ELSE faults < MaxFaults /\ faults' = faults + 1

\* A retry loop that logs every failed attempt.
make_api_call_log_each(call, outcome) ==
  IF outcome = "exception"
  THEN <<LogEntry("make_api_call", "API call failed after 3 attempts")>>
  ELSE <<>>

\* The lines that iteration appends to the error log.
make_api_call_log(call, outcome) ==
  IF outcome = "exception" /\ ~(call.attempt < retries - 1)
  THEN <<LogEntry("make_api_call", "API call failed after 3 attempts")>>
  ELSE <<>>

\* `response and response.status_code == 200` (a Response is truthy when ok)
Is200(call) == call.status \in {"200", "garbage"}

\* response.json() raises on a body that is not JSON
JsonRaises(call) == call.status = "garbage"

\* ------------------------------------------------------------ fieldnames
\* A derivation that always puts the record identifier first.
fieldnamesIdFirst(keys, uid) ==
  IF uid # NoColumn
  THEN <<"skyflow_id", uid>> \o SelectSeq(keys, LAMBDA f : f \notin {uid, "skyflow_id"})
  ELSE <<"skyflow_id">> \o SelectSeq(keys, LAMBDA f : f # "skyflow_id")

\* Lines 175-188: the column order from the keys of the first record.
fieldnamesFor(keys, uid) ==
  IF uid # NoColumn
  THEN <<uid, "skyflow_id">> \o SelectSeq(keys, LAMBDA f : f \notin {uid, "skyflow_id"})
  ELSE <<"skyflow_id">> \o SelectSeq(keys, LAMBDA f : f # "skyflow_id")

\* ------------------------------------------------------------ files
NoFile == [exists |-> FALSE, header |-> <<>>, rows |-> <<>>]
File(header, rows) == [exists |-> TRUE, header |-> header, rows |-> rows]

\* csv.DictWriter(f, fieldnames).writerow(record): the cells in header order,
\* '' for a missing key.
DictWriterRow(fields, record) ==
  [i \in 1..Len(fields) |->
     IF fields[i] \in DOMAIN record THEN record[fields[i]] ELSE Empty]

\* writerow raises ValueError on a key that is not a fieldname.
WriterowRaises(fields, record) == DOMAIN record \ Range(fields) # {}

\* Index of the first record writerow rejects, 0 when there is none.
FirstRejected(fields, records) ==
  LET bad == {i \in 1..Len(records) : WriterowRaises(fields, records[i])}
  IN  IF bad = {} THEN 0 ELSE CHOOSE i \in bad : \A j \in bad : i <= j

\* csv.DictReader row: the value under a column name (the last column of that
\* name wins, as dict(zip(fieldnames, row)) does).
Cell(header, row, col) ==
  LET at == {i \in 1..Len(header) : header[i] = col /\ i <= Len(row)}
  IN  IF at = {} THEN Empty ELSE row[CHOOSE i \in at : \A j \in at : j <= i]

\* ------------------------------------------------------------ Init
At(phase, step) == pc = [phase |-> phase, at |-> step]
Goto(phase, step) == pc' = [phase |-> phase, at |-> step]

\* The command lines and vaults the model runs.  A token output path matters
\* only with --dump_tokens, so it is left out without it.
Args ==
  {a \in [mt : 1..MaxParallel, rows_per_call : 1..MaxRowsPerCall,
          unique_id_column : {NoColumn, "name", "email"},
          dump_tokens : BOOLEAN, output_token_data : BOOLEAN] :
     a.output_token_data => a.dump_tokens}

\* The odd row, if any, is the last one of the table.
Vaults ==
  {v \in [count : 0..MaxRecords, limit : 1..MaxPageSize, odd : 0..MaxRecords,
          keys : {<<"name", "skyflow_id">>}] :
     v.odd = 0 \/ (1 < v.odd /\ v.odd = v.count)}

\* The script before its first request (line 137), apart from the token.
Start ==
  /\ pc = [phase |-> "gate", at |-> "count"]
  /\ apiCall = NewCall
  /\ total_records = 0
  /\ fieldnames = <<>>
  /\ offset = 0
  /\ total_records_dumped = 0
  /\ total_tokens_dumped = 0
  /\ futures = <<>>
  /\ temp_output = NoFile
  /\ temp_output_token = NoFile
  /\ output_csv = NoFile
  /\ output_token_csv = NoFile
  /\ error_log = <<>>
  /\ stdout = <<>>
  /\ skyflow_ids = <<>>
  /\ additional_fields = <<>>
  /\ submitted = [scan |-> <<>>, token |-> <<>>]
  /\ waves = [scan |-> 0, token |-> 0]
  /\ faults = 0

\* The token pass is run on vaults whose page size is the chunk size (both
\* default to 25), the scan alone on every vault.
Init ==
  /\ args \in Args
  /\ vault \in Vaults
  /\ args.dump_tokens => vault.limit = args.rows_per_call
  /\ auth = WithHeaders(NewAuth(None))
  /\ Start

\* The first records and the primary-column settings the schema is derived
\* for: every order of up to MaxKeys distinct field names, on a table of one
\* row exported without a token pass.
KeyOrders ==
  {k \in UNION {[1..n -> KeyNames] : n \in 1..MaxKeys} :
     \A i, j \in 1..Len(k) : i # j => k[i] # k[j]}

SchemaArgs ==
  [mt : {1}, rows_per_call : {1}, unique_id_column : {NoColumn} \cup KeyNames,
   dump_tokens : {FALSE}, output_token_data : {FALSE}]

SchemaVaults == [count : {1}, limit : {1}, odd : {0}, keys : KeyOrders]

SchemaInit ==
  /\ args \in SchemaArgs
  /\ vault \in SchemaVaults
  /\ auth = WithHeaders(NewAuth(None))
  /\ Start

\* The command lines argparse accepts with a chunk size that is not positive
\* (`--rows_per_call 0`; type=int sets no lower limit), next to the positive
\* ones, on tables without an odd row and with a token pass.
TermArgs ==
  [mt : 1..MaxParallel, rows_per_call : 0..MaxRowsPerCall,
   unique_id_column : {NoColumn}, dump_tokens : {TRUE}, output_token_data : {TRUE}]

TermInit ==
  /\ args \in TermArgs
  /\ vault \in {v \in Vaults : v.odd = 0}
  /\ args.rows_per_call > 0 => vault.limit = args.rows_per_call
  /\ args.rows_per_call = 0 => vault.limit = 1
  /\ auth = WithHeaders(NewAuth(None))
  /\ Start

\* The script at line 48, for every token the command line can bring: none
\* (--pc alone), an empty one (--bt '' with --pc), or a JWT of any expiry time.
TokenInit ==
  /\ args \in {a \in SchemaArgs : a.unique_id_column = NoColumn}
  /\ vault \in {v \in SchemaVaults : v.keys = <<"skyflow_id">>}
  /\ auth \in {NewAuth(bt) : bt \in {None, EmptyString} \cup {Jwt(e) : e \in 0..MaxTime}}
  /\ Start

\* ------------------------------------------------------------ the bearer token
programVars == <<args, vault, pc, apiCall, total_records, fieldnames, offset,
                 total_records_dumped, total_tokens_dumped, futures, temp_output,
                 temp_output_token, output_csv, output_token_csv, error_log,
                 stdout, skyflow_ids, additional_fields, submitted, waves, faults>>

\* Lines 127-135: the header is built, once, before the first request.
Headers ==
  /\ auth.accessToken = None
  /\ auth' = WithHeaders(auth)
  /\ UNCHANGED programVars

\* A later call of token_provider().
TokenProviderCall ==
  /\ auth.accessToken # None
  /\ auth.calls < MaxCalls
  /\ auth' = Call(auth)
  /\ UNCHANGED programVars

\* Time passes.
Tick ==
  /\ auth.now < MaxTime
  /\ auth' = [auth EXCEPT !.now = @ + 1]
  /\ UNCHANGED programVars

\* ------------------------------------------------------------ the gates
gateVars == <<args, auth, vault, total_records_dumped, total_tokens_dumped, futures,
              temp_output_token, output_csv, output_token_csv, skyflow_ids,
              additional_fields, submitted, waves, faults>>

\* One attempt of the make_api_call of a gate (count query or schema probe).
GateAttempt(step) ==
  /\ At("gate", step)
  /\ ~Returned(apiCall)
  /\ \E outcome \in Outcomes :
       /\ Meets(outcome)
       /\ apiCall' = make_api_call(apiCall, outcome)
       /\ error_log' = error_log \o make_api_call_log(apiCall, outcome)
  /\ UNCHANGED <<args, auth, vault, pc, total_records, fieldnames, offset,
                 total_records_dumped, total_tokens_dumped, futures, temp_output,
                 temp_output_token, output_csv, output_token_csv, stdout,
                 skyflow_ids, additional_fields, submitted, waves>>

CountAttempt == GateAttempt("count")
ProbeAttempt == GateAttempt("probe")

\* A gate that logs and prints, and ends the run with status 0.
GateFailsQuietly(gate) ==
  /\ error_log' = log_error(error_log, "gate", gate)
  /\ stdout' = Append(stdout, Line(gate, {}, 0))
  /\ Goto("end", "exit0")

\* log_error(error_message); print(error_message); exit(1)
GateFails(gate) ==
  /\ error_log' = log_error(error_log, "gate", gate)
  /\ stdout' = Append(stdout, Line(gate, {}, 0))
  /\ Goto("end", "exit1")

\* Lines 141-157: the count gate, then the temporary file with an empty header.
CountGate ==
  /\ At("gate", "count")
  /\ Returned(apiCall)
  /\ IF ~Is200(apiCall)
     THEN /\ GateFails("Failed to retrieve record count")
          /\ UNCHANGED <<total_records, temp_output, apiCall>>
     ELSE IF JsonRaises(apiCall)
     THEN /\ Goto("end", "traceback")
          /\ UNCHANGED <<total_records, temp_output, apiCall, error_log, stdout>>
     ELSE /\ total_records' = vault.count
          /\ stdout' = Append(stdout, Line("Total records to retrieve",
                                           {"total_records"}, vault.count))
          /\ temp_output' = File(<<>>, <<>>)
          /\ apiCall' = NewCall
          /\ Goto("gate", "probe")
          /\ UNCHANGED error_log
  /\ UNCHANGED <<fieldnames, offset>>
  /\ UNCHANGED gateVars

ProbeRequest == [offset |-> 0, limit |-> NoLimit]

\* A primary-column check that accepts every column name.
UniqueColumnUnchecked(keys) == FALSE

\* `if UNIQUE_ID_COLUMN: if UNIQUE_ID_COLUMN not in fieldnames:`
UniqueColumnMissing(keys) ==
  UNIQUE_ID_COLUMN # NoColumn /\ UNIQUE_ID_COLUMN \notin Range(keys)

\* Lines 161-202: the probe gates, the schema, the header, the loop variables.
ProbeGate ==
  /\ At("gate", "probe")
  /\ Returned(apiCall)
  /\ LET initial == ListRecords(ProbeRequest) IN
     IF ~Is200(apiCall)
     THEN /\ GateFails("Failed to retrieve data")
          /\ UNCHANGED <<fieldnames, temp_output>>
     ELSE IF JsonRaises(apiCall)
     THEN /\ Goto("end", "traceback")
          /\ UNCHANGED <<fieldnames, temp_output, error_log, stdout>>
     ELSE IF Len(initial) = 0
     THEN /\ GateFails("No records found in initial response")
          /\ UNCHANGED <<fieldnames, temp_output>>
     ELSE IF UniqueColumnMissing(RecordKeys)
     THEN /\ GateFails("Unique column specified is not found")
          /\ UNCHANGED <<fieldnames, temp_output>>
     ELSE /\ fieldnames' = fieldnamesFor(RecordKeys, UNIQUE_ID_COLUMN)
          /\ stdout' = Append(stdout, Line("Fieldnames for CSV", {"fieldnames"}, 0))
          /\ temp_output' = File(fieldnames', <<>>)
          /\ Goto("scan", "while")
          /\ UNCHANGED error_log
  /\ offset' = 0
  /\ UNCHANGED <<total_records, apiCall>>
  /\ UNCHANGED gateVars

\* ------------------------------------------------------------ the schedulers
\* Both while loops (lines 204-216 and 258-271), by phase: "scan" or "token".
Expected(phase) == IF phase = "scan" THEN total_records ELSE Len(skyflow_ids)

Completed(phase) ==
  IF phase = "scan" THEN total_records_dumped ELSE total_tokens_dumped

\* A future of the wave: the chunk it fetches and where its worker is.
\*   at: "call" (inside make_api_call or about to read the response),
\*       "write" (inside the with-open block), "returned", "raised"
Future(chunk, ids) ==
  [chunk |-> chunk, ids |-> ids, at |-> "call", call |-> NewCall,
   pending |-> <<>>, raises |-> FALSE, result |-> 0, collected |-> FALSE]

\* A slice whose end index is taken as inclusive.
IdSliceInclusive(ids, from) ==
  SubSeq(ids, from + 1, Min(from + ROWS_PER_CHUNK + 1, Len(ids)))

\* skyflow_ids[offset:end_index], end_index = min(offset + ROWS_PER_CHUNK, total_ids)
IdSlice(ids, from) ==
  SubSeq(ids, from + 1, Min(from + ROWS_PER_CHUNK, Len(ids)))

Finished(f) == f.at \in {"returned", "raised"}

\* `while offset < total:` entering `with ThreadPoolExecutor(...) as executor`
MoreWork(phase) == offset < Expected(phase)

\* A submit loop that breaks only past the total.
MaySubmitInclusive(phase) ==
  Len(futures) < MAX_PARALLEL_TASKS /\ offset <= Expected(phase)

\* `for i in range(MAX_PARALLEL_TASKS): if offset >= total: break`
MaySubmit(phase) == Len(futures) < MAX_PARALLEL_TASKS /\ offset < Expected(phase)

\* The offset after one submit: `offset += ROWS_PER_CHUNK`
NextOffset(o) == o + ROWS_PER_CHUNK

schedVars == <<args, auth, vault, apiCall, total_records, fieldnames, temp_output,
               temp_output_token, output_csv, output_token_csv, error_log,
               stdout, skyflow_ids, additional_fields, faults>>

\* The while test; a loop is followed for MaxWaves waves at most.
While(phase) ==
  /\ At(phase, "while")
  /\ IF MoreWork(phase)
     THEN /\ waves[phase] < MaxWaves
          /\ Goto(phase, "submit")
          /\ futures' = <<>>
          /\ waves' = [waves EXCEPT ![phase] = @ + 1]
     ELSE /\ Goto(phase, "publish")
          /\ UNCHANGED <<futures, waves>>
  /\ UNCHANGED <<offset, total_records_dumped, total_tokens_dumped, submitted>>
  /\ UNCHANGED schedVars

\* executor.submit(...); offset += ROWS_PER_CHUNK
Submit(phase) ==
  /\ At(phase, "submit")
  /\ MaySubmit(phase)
  /\ futures' = Append(futures,
       Future(offset, IF phase = "scan" THEN <<>> ELSE IdSlice(skyflow_ids, offset)))
  /\ submitted' = [submitted EXCEPT ![phase] = Append(@, offset)]
  /\ offset' = NextOffset(offset)
  /\ UNCHANGED <<pc, total_records_dumped, total_tokens_dumped, waves>>
  /\ UNCHANGED schedVars

\* The submit loop ends; the main thread enters as_completed(futures).
Submitted(phase) ==
  /\ At(phase, "submit")
  /\ ~MaySubmit(phase)
  /\ Goto(phase, "collect")
  /\ UNCHANGED <<offset, total_records_dumped, total_tokens_dumped, futures,
                 submitted, waves>>
  /\ UNCHANGED schedVars

\* as_completed yields a finished future; future.result() returns its count.
Collect(phase, w) ==
  /\ At(phase, "collect")
  /\ futures[w].at = "returned"
  /\ ~futures[w].collected
  /\ futures' = [futures EXCEPT ![w].collected = TRUE]
  /\ IF phase = "scan"
     THEN /\ total_records_dumped' = total_records_dumped + futures[w].result
          /\ UNCHANGED total_tokens_dumped
     ELSE /\ total_tokens_dumped' = total_tokens_dumped + futures[w].result
          /\ UNCHANGED total_records_dumped
  /\ UNCHANGED <<pc, offset, submitted, waves>>
  /\ UNCHANGED schedVars

\* future.result() re-raises what the worker raised: the main thread leaves the
\* loop, and the executor's __exit__ waits for the workers still running.
CollectRaises(phase, w) ==
  /\ At(phase, "collect")
  /\ futures[w].at = "raised"
  /\ Goto(phase, "unwind")
  /\ UNCHANGED <<offset, total_records_dumped, total_tokens_dumped, futures,
                 submitted, waves>>
  /\ UNCHANGED schedVars

Unwind(phase) ==
  /\ At(phase, "unwind")
  /\ \A w \in 1..Len(futures) : Finished(futures[w])
  /\ Goto("end", "traceback")
  /\ UNCHANGED <<offset, total_records_dumped, total_tokens_dumped, futures,
                 submitted, waves>>
  /\ UNCHANGED schedVars

\* A wave that ends as soon as one future was yielded.
JoinFirst(phase) ==
  /\ At(phase, "collect")
  /\ \E w \in 1..Len(futures) : futures[w].collected
  /\ Goto(phase, "while")
  /\ UNCHANGED <<offset, total_records_dumped, total_tokens_dumped, futures,
                 submitted, waves>>
  /\ UNCHANGED schedVars

\* Every future was yielded: the with block ends and the while test runs again.
Join(phase) ==
  /\ At(phase, "collect")
  /\ \A w \in 1..Len(futures) : futures[w].collected
  /\ Goto(phase, "while")
  /\ UNCHANGED <<offset, total_records_dumped, total_tokens_dumped, futures,
                 submitted, waves>>
  /\ UNCHANGED schedVars

\* ------------------------------------------------------------ the chunk workers
\* process_chunk (lines 84-101) and process_token_chunk (lines 104-125) run in a
\* pool thread from the moment they are submitted.
Running(phase) == pc.phase = phase /\ pc.at \in {"submit", "collect", "unwind"}

workerVars == <<args, auth, vault, pc, apiCall, total_records, fieldnames, offset,
                total_records_dumped, total_tokens_dumped, output_csv,
                output_token_csv, skyflow_ids, additional_fields, submitted, waves>>

\* The list request process_chunk sends: its URL carries redaction, offset and
\* order_by, and no limit.
ChunkRequest(chunk) == [offset |-> chunk, limit |-> NoLimit]

\* One attempt of the worker's make_api_call.
ChunkAttempt(phase, w) ==
  /\ Running(phase)
  /\ futures[w].at = "call"
  /\ ~Returned(futures[w].call)
  /\ \E outcome \in Outcomes :
       /\ Meets(outcome)
       /\ futures' = [futures EXCEPT ![w].call = make_api_call(@, outcome)]
       /\ error_log' = error_log \o make_api_call_log(futures[w].call, outcome)
  /\ UNCHANGED <<temp_output, temp_output_token, stdout>>
  /\ UNCHANGED workerVars

\* The records of the response, as the worker reads them.
Records(phase, f) ==
  IF phase = "scan" THEN ListRecords(ChunkRequest(f.chunk)) ELSE GetTokens(f.ids)

\* The rows writerow puts into the file object before the with block ends:
\* all of them, or those before the record writerow rejects (scan only; the
\* token worker projects every record onto fieldnames).
RowsWritten(phase, records) ==
  LET bad == IF phase = "scan" THEN FirstRejected(fieldnames, records) ELSE 0
      n == IF bad = 0 THEN Len(records) ELSE bad - 1
  IN  [i \in 1..n |-> DictWriterRow(fieldnames, records[i])]

WriteRaises(phase, records) ==
  phase = "scan" /\ FirstRejected(fieldnames, records) # 0

\* The worker after make_api_call returned: the else branch (log, print,
\* return 0), or response.json() and the rows handed to the csv writer.
ChunkResponse(phase, w) ==
  LET f == futures[w]
      records == Records(phase, f)
      rows == RowsWritten(phase, records)
  IN
  /\ Running(phase)
  /\ f.at = "call"
  /\ Returned(f.call)
  /\ IF ~Is200(f.call)
     THEN /\ error_log' = log_error(error_log,
                 IF phase = "scan" THEN "process_chunk" ELSE "process_token_chunk",
                 IF phase = "scan" THEN f.chunk ELSE f.ids)
          /\ stdout' = Append(stdout,
                 IF phase = "scan"
                 THEN Line("Error occurred at offset", {"offset"}, f.chunk)
                 ELSE Line("Error occurred for skyflow_ids", {"skyflow_ids"}, f.ids))
          /\ futures' = [futures EXCEPT ![w].at = "returned", ![w].result = 0]
     ELSE IF JsonRaises(f.call)
     THEN /\ futures' = [futures EXCEPT ![w].at = "raised"]
          /\ UNCHANGED <<error_log, stdout>>
     ELSE /\ futures' = [futures EXCEPT
                 ![w].pending = rows,
                 ![w].raises = WriteRaises(phase, records),
                 ![w].result = Len(records),
                 ![w].at = IF Len(rows) > 0 THEN "write"
                           ELSE IF WriteRaises(phase, records) THEN "raised"
                           ELSE "returned"]
          /\ UNCHANGED <<error_log, stdout>>
  /\ UNCHANGED <<temp_output, temp_output_token, faults>>
  /\ UNCHANGED workerVars

\* One write() of the worker's file object onto the Buffer, opened in append
\* mode.  The object flushes when its buffer fills and when the with block
\* closes it, so a chunk reaches the file in one write or in several, which
\* depends on the size of its rows.  No lock is taken (lines 91-95, 114-119).
FlushSizes(pending) == 1..Len(pending)

\* A write through a file opened in mode 'w': the rows replace the file's.
WriteRows(file, rows, chunk) ==
  [file EXCEPT !.rows = [i \in 1..Len(rows) |-> [cells |-> rows[i], by |-> chunk]]]

\* A write through a file opened in mode 'a'.
AppendRows(file, rows, chunk) ==
  [file EXCEPT !.rows = @ \o [i \in 1..Len(rows) |-> [cells |-> rows[i], by |-> chunk]]]

ChunkFlush(phase, w) ==
  LET f == futures[w] IN
  /\ Running(phase)
  /\ f.at = "write"
  /\ \E n \in FlushSizes(f.pending) :
       LET rest == Drop(f.pending, n) IN
       /\ IF phase = "scan"
          THEN /\ temp_output' = AppendRows(temp_output, Take(f.pending, n), f.chunk)
               /\ UNCHANGED temp_output_token
          ELSE /\ temp_output_token' =
                    AppendRows(temp_output_token, Take(f.pending, n), f.chunk)
               /\ UNCHANGED temp_output
       /\ futures' = [futures EXCEPT
             ![w].pending = rest,
             ![w].at = IF Len(rest) > 0 THEN "write"
                       ELSE IF f.raises THEN "raised" ELSE "returned"]
  /\ UNCHANGED <<error_log, stdout, faults>>
  /\ UNCHANGED workerVars

\* ------------------------------------------------------------ publishing
\* csv.reader / csv.writer copy of the Buffer: header and rows, cell by cell.
CopyRows(file) == [i \in 1..Len(file.rows) |-> file.rows[i].cells]

\* Lines 218-231: copy the Buffer to OUTPUT_CSV, remove it, print the count.
Publish ==
  /\ At("scan", "publish")
  /\ output_csv' = File(temp_output.header, CopyRows(temp_output))
  /\ temp_output' = NoFile
  /\ stdout' = Append(stdout, Line("Data dump completed. Total records dumped",
                                   {"total_records_dumped"}, total_records_dumped))
  /\ IF DUMP_TOKENS_ENABLED THEN Goto("token", "read") ELSE Goto("end", "exit0")
  /\ UNCHANGED <<args, auth, vault, apiCall, total_records, fieldnames, offset,
                 total_records_dumped, total_tokens_dumped, futures,
                 temp_output_token, output_token_csv, error_log, skyflow_ids,
                 additional_fields, submitted, waves, faults>>

\* additional_fields[row['skyflow_id']] = row[UNIQUE_ID_COLUMN], row by row.
RECURSIVE JoinMap(_, _, _)
JoinMap(header, rows, n) ==
  IF n = 0 THEN <<>>
  ELSE LET before == JoinMap(header, rows, n - 1)
           id == Cell(header, rows[n], "skyflow_id")
       IN  [k \in DOMAIN before \cup {id} |->
              IF k = id THEN Cell(header, rows[n], UNIQUE_ID_COLUMN) ELSE before[k]]

\* Lines 235-256: read the identifiers back from OUTPUT_CSV, start the Buffer.
TokenRead ==
  /\ At("token", "read")
  /\ skyflow_ids' = [i \in 1..Len(output_csv.rows) |->
                       Cell(output_csv.header, output_csv.rows[i], "skyflow_id")]
  /\ additional_fields' =
       IF UNIQUE_ID_COLUMN # NoColumn
       THEN JoinMap(output_csv.header, output_csv.rows, Len(output_csv.rows))
       ELSE <<>>
  /\ stdout' = Append(stdout, Line("Total skyflow_ids to tokenize", {"total_ids"},
                                   Len(output_csv.rows)))
  /\ temp_output_token' = File(fieldnames, <<>>)
  /\ offset' = 0
  /\ total_tokens_dumped' = 0
  /\ Goto("token", "while")
  /\ UNCHANGED <<args, auth, vault, apiCall, total_records, fieldnames,
                 total_records_dumped, futures, temp_output, output_csv,
                 output_token_csv, error_log, submitted, waves, faults>>

\* A merge that writes the token rows as they were read.
MergedAsRead(header, row) ==
  [i \in 1..Len(header) |-> Cell(header, row, header[i])]

\* Lines 274-280: the primary column re-attached from additional_fields.
Merged(header, row) ==
  LET id == Cell(header, row, "skyflow_id") IN
  [i \in 1..Len(header) |->
     IF /\ UNIQUE_ID_COLUMN # NoColumn
        /\ id \in DOMAIN additional_fields
        /\ header[i] = UNIQUE_ID_COLUMN
     THEN additional_fields[id]
     ELSE Cell(header, row, header[i])]

\* Lines 273-296: merge, write OUTPUT_TOKEN_CSV, remove the Buffer, print.
\* open(None) raises TypeError when --output_token_data was not given.
TokenPublish ==
  /\ At("token", "publish")
  /\ IF OUTPUT_TOKEN_CSV
     THEN /\ output_token_csv' =
               File(fieldnames,
                    [i \in 1..Len(temp_output_token.rows) |->
                       Merged(temp_output_token.header, temp_output_token.rows[i].cells)])
          /\ temp_output_token' = NoFile
          /\ stdout' = Append(stdout, Line("Tokenization completed. Total tokens dumped",
                                           {"total_tokens_dumped"}, total_tokens_dumped))
          /\ Goto("end", "exit0")
     ELSE /\ Goto("end", "traceback")
          /\ UNCHANGED <<output_token_csv, temp_output_token, stdout>>
  /\ UNCHANGED <<args, auth, vault, apiCall, total_records, fieldnames, offset,
                 total_records_dumped, total_tokens_dumped, futures, temp_output,
                 output_csv, error_log, skyflow_ids, additional_fields,
                 submitted, waves, faults>>

\* ------------------------------------------------------------ the program
ScanWhile == While("scan")
ScanSubmit == Submit("scan")
ScanSubmitted == Submitted("scan")
ScanCollect == \E w \in 1..Len(futures) : Collect("scan", w)
ScanCollectRaises == \E w \in 1..Len(futures) : CollectRaises("scan", w)
ScanUnwind == Unwind("scan")
ScanJoin == Join("scan")
ScanChunkAttempt == \E w \in 1..Len(futures) : ChunkAttempt("scan", w)
ScanChunkResponse == \E w \in 1..Len(futures) : ChunkResponse("scan", w)
ScanChunkFlush == \E w \in 1..Len(futures) : ChunkFlush("scan", w)

TokenWhile == While("token")
TokenSubmit == Submit("token")
TokenSubmitted == Submitted("token")
TokenCollect == \E w \in 1..Len(futures) : Collect("token", w)
TokenCollectRaises == \E w \in 1..Len(futures) : CollectRaises("token", w)
TokenUnwind == Unwind("token")
TokenJoin == Join("token")
TokenChunkAttempt == \E w \in 1..Len(futures) : ChunkAttempt("token", w)
TokenChunkResponse == \E w \in 1..Len(futures) : ChunkResponse("token", w)
TokenChunkFlush == \E w \in 1..Len(futures) : ChunkFlush("token", w)

Next ==
  \/ CountAttempt \/ CountGate \/ ProbeAttempt \/ ProbeGate
  \/ ScanWhile \/ ScanSubmit \/ ScanSubmitted
  \/ ScanCollect \/ ScanCollectRaises \/ ScanUnwind \/ ScanJoin
  \/ ScanChunkAttempt \/ ScanChunkResponse \/ ScanChunkFlush
  \/ Publish \/ TokenRead
  \/ TokenWhile \/ TokenSubmit \/ TokenSubmitted
  \/ TokenCollect \/ TokenCollectRaises \/ TokenUnwind \/ TokenJoin
  \/ TokenChunkAttempt \/ TokenChunkResponse \/ TokenChunkFlush
  \/ TokenPublish

Spec == Init /\ [][Next]_vars

\* The gates alone, on every first record: the run up to the derived schema.
SchemaNext == CountAttempt \/ CountGate \/ ProbeAttempt \/ ProbeGate

SchemaSpec == SchemaInit /\ [][SchemaNext]_vars

\* The whole script with chunk sizes from 0.  The interpreter runs the main
\* thread and every pool thread that can take a step, and every request
\* attempt returns.
TermSpec == TermInit /\ [][Next]_vars /\ WF_vars(Next)

\* The token provider alone, under a running clock.
TokenNext == Headers \/ TokenProviderCall \/ Tick

TokenSpec == TokenInit /\ [][TokenNext]_vars

\* ------------------------------------------------------------ properties
\* The entries of the error log written by `src`.
Entries(log, src) == {i \in 1..Len(log) : log[i].src = src}

\* The entries process_chunk wrote about the chunk at `chunk`.
ChunkEntries(chunk) ==
  {i \in 1..Len(error_log) :
     error_log[i].src = "process_chunk" /\ error_log[i].ref = chunk}

\* The rows of the scan artifact that carry identifier id.
RowsWithId(id) ==
  {i \in 1..Len(output_csv.rows) :
     Cell(output_csv.header, output_csv.rows[i], "skyflow_id") = id}

\* The rows a chunk of ROWS_PER_CHUNK rows at `chunk` is planned to bring.
Planned(chunk) == (chunk + 1)..Min(chunk + ROWS_PER_CHUNK, total_records)

Ceil(a, b) == (a + b - 1) \div b

ScanEnded == At("scan", "publish") \/ output_csv.exists

\* Every make_api_call the state holds: the main thread's and the workers'.
Calls == {apiCall} \cup {futures[w].call : w \in 1..Len(futures)}

\* C1: when every chunk of the scan succeeds, total_records_dumped is the
\* expected total and the published artifact holds each table row exactly once.
C1_AllRowsExactlyOnce ==
  (output_csv.exists /\ Entries(error_log, "process_chunk") = {})
    => /\ total_records_dumped = total_records
       /\ Len(output_csv.rows) = total_records
       /\ \A id \in 1..vault.count : Cardinality(RowsWithId(id)) = 1

\* C2: when exactly one chunk, a full one, exhausts its retries and every
\* other chunk succeeds, the run ends with completed = expectedTotal -
\* chunkSize, one process_chunk entry for that offset, and the rows of every
\* other offset in the artifact.
C2_OneChunkLost ==
  \A chunk \in Range(submitted.scan) :
    ( /\ output_csv.exists
      /\ Cardinality(Entries(error_log, "process_chunk")) = 1
      /\ Cardinality(Entries(error_log, "make_api_call")) = 1
      /\ ChunkEntries(chunk) # {}
      /\ chunk + ROWS_PER_CHUNK <= total_records )
    => /\ total_records_dumped = total_records - ROWS_PER_CHUNK
       /\ Cardinality(ChunkEntries(chunk)) = 1
       /\ \A other \in Range(submitted.scan) \ {chunk} :
            \A id \in Planned(other) : RowsWithId(id) # {}

\* C3: a request whose every attempt fails is attempted exactly 3 times, sleeps
\* 1 and then 2 between the attempts, and returns None to a caller that goes
\* on; a request answered at attempt k made k attempts and slept before each
\* retry only.
C3_CallRetries(call) ==
  /\ call.slept = SubSeq(<<1, 2>>, 1, Min(call.failures, 2))
  /\ call.status = "None" => call.failures = 3
  /\ call.status # "None" => call.failures \in 0..2

C3_RetryExhaustion ==
  /\ \A call \in Calls : C3_CallRetries(call)
  /\ \A w \in 1..Len(futures) :
       futures[w].call.status = "None" =>
         /\ futures[w].at \in {"call", "returned"}
         /\ futures[w].result = 0

C3_Witness ==
  /\ \E w \in 1..Len(futures) :
       futures[w].call.status = "None" /\ futures[w].at = "returned"
  /\ \E w \in 1..Len(futures) :
       futures[w].call.status = "200" /\ futures[w].call.failures = 0

\* The failed attempts and the exhausted requests of the calls in the state.
FailedAttempts ==
  apiCall.failures
    + Cardinality({x \in (1..Len(futures)) \X (1..(retries + 1)) :
                     x[2] <= futures[x[1]].call.failures})

Exhausted ==
  (IF apiCall.status = "None" THEN 1 ELSE 0)
    + Cardinality({w \in 1..Len(futures) : futures[w].call.status = "None"})

Requester(log) == Cardinality(Entries(log, "make_api_call"))

\* C4, as claimed: every failed attempt appends one requester entry to the
\* error log, and nothing else appends one.
C4_EveryFailureLogged ==
  [][Requester(error_log') - Requester(error_log)
       = IF FailedAttempts' = FailedAttempts + 1 THEN 1 ELSE 0]_vars

\* C4, amended: a request appends one requester entry when its last attempt
\* fails and it returns None; failures that are retried and successes append
\* nothing.
C4_FinalFailureLogged ==
  [][Requester(error_log') - Requester(error_log)
       = IF Exhausted' = Exhausted + 1 THEN 1 ELSE 0]_vars

C4_Witness ==
  /\ Requester(error_log) = 1
  /\ \E w \in 1..Len(futures) :
       futures[w].call.status = "None" /\ futures[w].call.failures = 3
  /\ \E w \in 1..Len(futures) : futures[w].call.status = "running"

\* C5: no failure of a chunk leaves the worker as an exception: every worker
\* returns, and the main thread is never unwound by future.result().
C5_ChunkFailuresContained ==
  /\ \A w \in 1..Len(futures) : futures[w].at # "raised"
  /\ pc.at # "unwind"

\* C6: each Buffer is a header followed by whole chunks: the rows one chunk
\* appended are never separated by the rows of another chunk.
Contiguous(file) ==
  \A i, j, k \in 1..Len(file.rows) :
    (i < j /\ j < k /\ file.rows[i].by = file.rows[k].by)
      => file.rows[j].by = file.rows[i].by

C6_WholeChunks == Contiguous(temp_output) /\ Contiguous(temp_output_token)

\* C7: at most MAX_PARALLEL_TASKS chunk fetches are in flight, in the scan and
\* in the token phase, and a wave is entered only when every future of the wave
\* before it has finished and had its count added.
InFlight == {w \in 1..Len(futures) : ~Finished(futures[w])}

C7_WaveBounded ==
  /\ [](Cardinality(InFlight) <= MAX_PARALLEL_TASKS)
  /\ [][waves' # waves =>
          \A w \in 1..Len(futures) :
            futures[w].at = "returned" /\ futures[w].collected]_vars

C7_Witness ==
  /\ waves.scan = 2
  /\ waves.token = 1
  /\ pc = [phase |-> "token", at |-> "collect"]
  /\ Cardinality(InFlight) = 2
  /\ MAX_PARALLEL_TASKS = 2

\* C8: the scan submits the offsets 0, chunkSize, 2*chunkSize, ... below the
\* expected total, each once and in this order, the cursor moving by chunkSize
\* per submit whatever the chunks return; when the loop ends every such offset
\* was submitted, in ceil(ceil(expectedTotal / chunkSize) / maxParallel) waves.
C8_ScanCoverage ==
  /\ \A i \in 1..Len(submitted.scan) :
       /\ submitted.scan[i] = (i - 1) * ROWS_PER_CHUNK
       /\ submitted.scan[i] < total_records
  /\ pc.phase = "scan" => offset = Len(submitted.scan) * ROWS_PER_CHUNK
  /\ ScanEnded =>
       /\ Len(submitted.scan) = Ceil(total_records, ROWS_PER_CHUNK)
       /\ waves.scan = Ceil(Ceil(total_records, ROWS_PER_CHUNK), MAX_PARALLEL_TASKS)

C8_Witness ==
  /\ output_csv.exists
  /\ Entries(error_log, "process_chunk") # {}
  /\ submitted.scan = <<0, 1, 2>>
  /\ waves.scan = 2

\* C9: a run that ends with fewer rows dumped than expected has printed a
\* warning that reports the gap and the path of the error log.
ReportsLoss(line) ==
  /\ "ERROR_LOG_FILE" \in line.shows
  /\ {"total_records", "total_records_dumped"} \subseteq line.shows

C9_LossReported ==
  (At("end", "exit0") /\ total_records_dumped < total_records)
    => \E i \in 1..Len(stdout) : ReportsLoss(stdout[i])

\* C10: OUTPUT_CSV is created only when the count query, the probe and the
\* primary-column check succeeded and every submitted chunk of every wave has
\* finished and was collected; a run that a gate ends never creates it.
GatesPassed ==
  /\ Entries(error_log, "gate") = {}
  /\ total_records = vault.count
  /\ vault.count > 0
  /\ fieldnames # <<>>
  /\ UNIQUE_ID_COLUMN # NoColumn => UNIQUE_ID_COLUMN \in Range(RecordKeys)

C10_PublishLast ==
  /\ []((At("end", "exit1") \/ Entries(error_log, "gate") # {}) => ~output_csv.exists)
  /\ []((pc.phase = "gate") => ~output_csv.exists)
  /\ [][(~output_csv.exists /\ output_csv'.exists) =>
          /\ GatesPassed
          /\ offset >= total_records
          /\ Len(submitted.scan) = Ceil(total_records, ROWS_PER_CHUNK)
          /\ \A w \in 1..Len(futures) : futures[w].collected]_vars

C10_Witness ==
  /\ output_csv.exists
  /\ UNIQUE_ID_COLUMN = "name"
  /\ Len(output_csv.rows) = 3
  /\ waves.scan = 2

\* The count gate ended the run after make_api_call returned None.
CountQueryFailed ==
  /\ apiCall.status = "None"
  /\ \E i \in Entries(error_log, "gate") :
       error_log[i].ref = "Failed to retrieve record count"

\* C11: when every attempt of the count query fails, the run exits non-zero,
\* no output file exists, no chunk was requested, and the error log holds
\* exactly one entry.
C11_CountQueryFails ==
  CountQueryFailed
    => /\ At("end", "exit1")
       /\ ~output_csv.exists /\ ~output_token_csv.exists
       /\ submitted.scan = <<>> /\ futures = <<>>
       /\ Len(error_log) = 1

\* The probe answered with records: the primary-column check is reached.
ProbeAnswered ==
  /\ At("gate", "probe")
  /\ Returned(apiCall) /\ Is200(apiCall) /\ ~JsonRaises(apiCall)
  /\ Len(ListRecords(ProbeRequest)) > 0

\* C12: a run whose primary column is not a key of the first probe record
\* ends with exit status 1 at the primary-column check, after the probe
\* request; it submits no scan chunk and publishes no artifact.
C12_MissingPrimaryAborts ==
  /\ [](UniqueColumnMissing(RecordKeys) =>
          /\ submitted.scan = <<>> /\ futures = <<>>
          /\ ~output_csv.exists /\ ~output_token_csv.exists
          /\ pc.phase \in {"gate", "end"}
          /\ ~At("end", "exit0"))
  /\ [][(ProbeAnswered /\ UniqueColumnMissing(RecordKeys)) =>
          /\ At("end", "exit1")'
          /\ error_log' = log_error(error_log, "gate",
                                    "Unique column specified is not found")]_vars

C12_Witness ==
  /\ UNIQUE_ID_COLUMN = "email"
  /\ At("end", "exit1")
  /\ apiCall.status = "200"
  /\ \E i \in Entries(error_log, "gate") :
       error_log[i].ref = "Unique column specified is not found"

\* The value a row of a published file holds under a column name.
Value(file, i, col) == Cell(file.header, file.rows[i], col)

\* C13: every row of the published token artifact carries, under the primary
\* column, the value the scan artifact holds for the row's identifier,
\* whatever the order in which the token chunks completed.
C13_TokenJoin ==
  (output_token_csv.exists /\ UNIQUE_ID_COLUMN # NoColumn) =>
    \A i \in 1..Len(output_token_csv.rows) :
      /\ \E k \in 1..Len(output_csv.rows) :
           Value(output_csv, k, "skyflow_id") = Value(output_token_csv, i, "skyflow_id")
      /\ \A k \in 1..Len(output_csv.rows) :
           Value(output_csv, k, "skyflow_id") = Value(output_token_csv, i, "skyflow_id")
             => Value(output_token_csv, i, UNIQUE_ID_COLUMN)
                  = Value(output_csv, k, UNIQUE_ID_COLUMN)

\* Three token rows published in another order than the scan artifact's.
C13_Witness ==
  /\ output_token_csv.exists
  /\ UNIQUE_ID_COLUMN = "name"
  /\ Len(output_token_csv.rows) = 3
  /\ Value(output_token_csv, 1, "skyflow_id") # Value(output_csv, 1, "skyflow_id")
  /\ Value(output_token_csv, 1, "name") # Empty

\* The schema was derived: the probe gate passed the primary-column check.
Derived == At("scan", "while") /\ waves.scan = 0

\* The place of a name in a sequence that holds it.
Pos(seq, f) == CHOOSE i \in 1..Len(seq) : seq[i] = f

\* The columns after the forced positions.
Others ==
  SubSeq(fieldnames, IF UNIQUE_ID_COLUMN # NoColumn THEN 3 ELSE 2, Len(fieldnames))

\* C14: the derived order has the primary column, when one is configured, at
\* position 0 and skyflow_id at position 1; without a primary column
\* skyflow_id is at position 0; the other keys of the first record follow, each
\* once and in the record's order; deriving again, from the first record or
\* from the derived order, gives the same order.
C14_SchemaOrder ==
  Derived =>
    /\ UNIQUE_ID_COLUMN # NoColumn =>
         /\ UNIQUE_ID_COLUMN \in Range(RecordKeys)
         /\ fieldnames[1] = UNIQUE_ID_COLUMN
         /\ fieldnames[2] = "skyflow_id"
    /\ UNIQUE_ID_COLUMN = NoColumn => fieldnames[1] = "skyflow_id"
    /\ Range(Others) = Range(RecordKeys) \ {UNIQUE_ID_COLUMN, "skyflow_id"}
    /\ \A i, j \in 1..Len(Others) :
         i < j => Pos(RecordKeys, Others[i]) < Pos(RecordKeys, Others[j])
    /\ fieldnamesFor(RecordKeys, UNIQUE_ID_COLUMN) = fieldnames
    /\ fieldnamesFor(fieldnames, UNIQUE_ID_COLUMN) = fieldnames
    /\ temp_output.header = fieldnames

C14_Witness ==
  /\ Derived
  /\ RecordKeys = <<"ssn", "name", "email">>
  /\ UNIQUE_ID_COLUMN = "email"
  /\ fieldnames = <<"email", "skyflow_id", "ssn", "name">>

\* No name occurs twice in the sequence.
Distinct(seq) == \A i, j \in 1..Len(seq) : i # j => seq[i] # seq[j]

\* C15: the derived schema, and the header written from it, hold no column
\* name twice, for every primary column the check accepts.
C15_DistinctColumns == Distinct(fieldnames) /\ Distinct(temp_output.header)

\* The token batches that cover position p of the identifier list.
BatchesOver(p) ==
  {i \in 1..Len(submitted.token) :
     submitted.token[i] < p /\ p <= submitted.token[i] + ROWS_PER_CHUNK}

TokenEnded == At("token", "publish") \/ output_token_csv.exists

\* C16: the token scheduler submits the batches at 0, chunkSize, 2*chunkSize,
\* ... in this order, each a contiguous slice of at most chunkSize identifiers
\* of the list; no position is in two batches, and when the loop has ended
\* every position is in one; when no batch failed, total_tokens_dumped is the
\* number of identifiers.
C16_TokenBatches ==
  /\ \A i \in 1..Len(submitted.token) :
       /\ submitted.token[i] = (i - 1) * ROWS_PER_CHUNK
       /\ submitted.token[i] < Len(skyflow_ids)
  /\ \A p \in 1..Len(skyflow_ids) : Cardinality(BatchesOver(p)) <= 1
  /\ Running("token") =>
       \A w \in 1..Len(futures) :
         LET f == futures[w] IN
         /\ f.chunk \in Range(submitted.token)
         /\ Len(f.ids) \in 1..ROWS_PER_CHUNK
         /\ Len(f.ids) = Min(ROWS_PER_CHUNK, Len(skyflow_ids) - f.chunk)
         /\ \A k \in 1..Len(f.ids) : f.ids[k] = skyflow_ids[f.chunk + k]
  /\ TokenEnded =>
       /\ \A p \in 1..Len(skyflow_ids) : Cardinality(BatchesOver(p)) = 1
       /\ Entries(error_log, "process_token_chunk") = {}
            => total_tokens_dumped = Len(skyflow_ids)

C16_Witness ==
  /\ output_token_csv.exists
  /\ Len(skyflow_ids) = 3
  /\ ROWS_PER_CHUNK = 2
  /\ submitted.token = <<0, 2>>
  /\ total_tokens_dumped = 3

\* The token is one a request can be authorised with at time `now`.
Valid(token, now) == token.kind = "jwt" /\ ~is_expired(token, now)

\* C17: every call of token_provider returns a token that is not expired at
\* the time of the call: the cached one when it is still valid, a newly
\* generated one when the cached one is missing or expired.
C17_NeverExpired ==
  [][auth'.calls = auth.calls + 1 =>
       /\ Valid(auth'.returned, auth.now)
       /\ auth'.returned = IF Valid(auth.bearerToken, auth.now)
                           THEN auth.bearerToken
                           ELSE generate_bearer_token(auth.now)]_vars

\* C18: each scheduler loop that is entered is left: the scan loop and the
\* token loop reach the end of the loop (cursor >= expected total), or the run
\* ends, after finitely many waves: at most one wave per unit of the expected
\* total, every wave moving the cursor forward.
C18_SchedulerTerminates ==
  /\ [](\A phase \in {"scan", "token"} : waves[phase] <= Expected(phase))
  /\ At("scan", "while") ~> (At("scan", "publish") \/ pc.phase = "end")
  /\ At("token", "while") ~> (At("token", "publish") \/ pc.phase = "end")

\* The main thread is at a wave barrier of the phase, or past its loop.
Barrier(phase) == At(phase, "while") \/ At(phase, "publish")

\* The chunks of the phase that logged a failure and returned 0.
FailedChunks(phase) ==
  {c \in Range(submitted[phase]) :
     \E i \in 1..Len(error_log) :
       IF phase = "scan"
       THEN error_log[i].src = "process_chunk" /\ error_log[i].ref = c
       ELSE /\ error_log[i].src = "process_token_chunk"
            /\ error_log[i].ref = IdSlice(skyflow_ids, c)}

\* C19: at every wave barrier and at the end of each phase the counter of the
\* phase is the number of data rows in the phase's Buffer, and then of the
\* published artifact; a chunk that failed and returned 0 appended no row.
C19_Accounting ==
  /\ Barrier("scan") =>
       /\ total_records_dumped = Len(temp_output.rows)
       /\ \A i \in 1..Len(temp_output.rows) :
            temp_output.rows[i].by \notin FailedChunks("scan")
  /\ output_csv.exists => Len(output_csv.rows) = total_records_dumped
  /\ Barrier("token") =>
       /\ total_tokens_dumped = Len(temp_output_token.rows)
       /\ \A i \in 1..Len(temp_output_token.rows) :
            temp_output_token.rows[i].by \notin FailedChunks("token")
  /\ output_token_csv.exists => Len(output_token_csv.rows) = total_tokens_dumped

C19_Witness ==
  /\ At("token", "while")
  /\ waves.token = 2
  /\ FailedChunks("scan") # {}
  /\ FailedChunks("token") # {}
  /\ total_records_dumped = 2
  /\ total_tokens_dumped = 1

\* C20: a run with --dump_tokens whose token loop has ended publishes the
\* token artifact and exits with status 0, with or without
\* --output_token_data; a run that exits 0 with --dump_tokens has published it.
C20_TokenPhaseCompletes ==
  /\ []((DUMP_TOKENS_ENABLED /\ At("end", "exit0")) => output_token_csv.exists)
  /\ [][At("token", "publish") =>
          (At("end", "exit0") /\ output_token_csv.exists)']_vars

====
